---- MODULE Spec2Model ----
(***************************************************************************)
(* Model of the Spook repair "lovelace_unknown_entity_references"          *)
(* (custom_components/spook/repairs/lovelace_unknown_entity_references.py).*)
(*                                                                         *)
(* A dashboard configuration is a Python object graph of str, list and     *)
(* dict objects.  A node of the model is a record with exactly one field:  *)
(*   [s |-> "light.a"]                a str                                *)
(*   [l |-> <<n1, n2>>]               a list of nodes                      *)
(*   [m |-> << <<"key", n>>, ... >>]  a dict, in insertion order           *)
(*   [none |-> TRUE]                  None (only ever the default of .get) *)
(*   [ref |-> "name"]                 a reference to the shared object     *)
(*                                    Shared[name] (a YAML anchor/alias);  *)
(*                                    the only way a graph gets a cycle    *)
(* An extraction either returns a set of identifiers or raises; the model  *)
(* of a call is the record [err |-> "" or the exception, ids |-> set].     *)
(***************************************************************************)
EXTENDS FiniteSets, Integers, Sequences, TLC

\* ------------------------------------------------------------------------
\* Bounds
\* ------------------------------------------------------------------------
\* Stand-in for the interpreter's recursion limit (sys.getrecursionlimit(),
\* 1000 by default): the number of nested extractor frames after which a
\* further call raises RecursionError.  Every acyclic input of the model is
\* shallower than this.
RecursionLimit == 9

\* ------------------------------------------------------------------------
\* Nodes
\* ------------------------------------------------------------------------
Str(x) == [s |-> x]
List(x) == [l |-> x]
Map(x) == [m |-> x]
Ref(x) == [ref |-> x]
None == [none |-> TRUE]

\* Shared objects: dicts that contain (a reference to) themselves.
Shared ==
  [ selfcard  |-> Map(<< <<"entity", Str("a.x")>>, <<"card", Ref("selfcard")>> >>),
    selfcards |-> Map(<< <<"cards", List(<<Ref("selfcards")>>)>> >>),
    selfelem  |-> Map(<< <<"entity", Str("a.x")>>,
                         <<"elements", List(<<Ref("selfelem")>>)>> >>),
    selfchip  |-> Map(<< <<"chip", Ref("selfchip")>> >>) ]

\* A reference denotes the object it points to.
Deref(n) == IF "ref" \in DOMAIN n THEN Shared[n.ref] ELSE n

\* ------------------------------------------------------------------------
\* Python's operations on str, list and dict objects
\* ------------------------------------------------------------------------
\* isinstance(n, str) / isinstance(n, list) / isinstance(n, dict)
IsStr(n) == "s" \in DOMAIN Deref(n)
IsList(n) == "l" \in DOMAIN Deref(n)
IsDict(n) == "m" \in DOMAIN Deref(n)

\* bool(n): None, "", [] and {} are falsy
Truthy(n) ==
  LET o == Deref(n) IN
  IF IsStr(o) THEN o.s # ""
  ELSE IF IsList(o) THEN o.l # <<>>
  ELSE IF IsDict(o) THEN o.m # <<>>
  ELSE FALSE

\* sub in text, for two str
Substring(sub, text) ==
  \E i \in 1..(Len(text) - Len(sub) + 1) : SubSeq(text, i, i + Len(sub) - 1) = sub

\* text.startswith(prefix)
StartsWith(text, prefix) ==
  /\ Len(text) >= Len(prefix)
  /\ SubSeq(text, 1, Len(prefix)) = prefix

\* key in n: a key of a dict, an item of a list, a substring of a str
PyIn(key, n) ==
  LET o == Deref(n) IN
  IF IsDict(o) THEN \E i \in 1..Len(o.m) : o.m[i][1] = key
  ELSE IF IsList(o) THEN \E i \in 1..Len(o.l) : IsStr(o.l[i]) /\ Deref(o.l[i]).s = key
  ELSE IF IsStr(o) THEN Substring(key, o.s)
  ELSE FALSE

\* n[key] of a dict that has the key (a str or list raises TypeError there)
PyItem(n, key) ==
  LET o == Deref(n)
      i == CHOOSE j \in 1..Len(o.m) : o.m[j][1] = key
  IN  o.m[i][2]

\* n.get(key, default) of a dict (a str or list raises AttributeError there)
PyGet(n, key, default) == IF PyIn(key, n) THEN PyItem(n, key) ELSE default

\* iter(n): the items of a list, the characters of a str, the keys of a dict
PyIter(n) ==
  LET o == Deref(n) IN
  IF IsList(o) THEN o.l
  ELSE IF IsStr(o) THEN [i \in 1..Len(o.s) |-> Str(SubSeq(o.s, i, i))]
  ELSE IF IsDict(o) THEN [i \in 1..Len(o.m) |-> Str(o.m[i][1])]
  ELSE <<>>

\* hash(n) is defined: a list or a dict cannot be a member of a set
Hashable(n) == IsStr(n)

\* ------------------------------------------------------------------------
\* Outcomes of a call
\* ------------------------------------------------------------------------
Ok(ids) == [err |-> "", ids |-> ids]
Raise(e) == [err |-> e, ids |-> {}]
Raised(r) == r.err # ""

\* Statements run in order: the first exception ends the function,
\* otherwise `entities` has been updated with every returned set.
ThenAll(rs) ==
  LET bad == {i \in 1..Len(rs) : Raised(rs[i])} IN
  IF bad # {}
  THEN rs[CHOOSE i \in bad : \A j \in bad : i <= j]
  ELSE Ok(UNION {rs[i].ids : i \in 1..Len(rs)})

\* set(n) / entities.update(n): every member of the iterable is hashed
SetOf(n) ==
  LET items == PyIter(n) IN
  IF \E i \in 1..Len(items) : ~Hashable(items[i])
  THEN Raise("TypeError")
  ELSE Ok({Deref(items[i]).s : i \in 1..Len(items)})

\* ------------------------------------------------------------------------
\* The extractor
\* ------------------------------------------------------------------------
\* A slip: the value is not tested for truthiness before its type.
CommonOfAnyValue(entity) ==
  IF IsStr(entity) THEN {Deref(entity).s}
  ELSE IF IsList(entity) THEN
    LET items == Deref(entity).l IN
    {Deref(items[i]).s : i \in {j \in 1..Len(items) : IsStr(items[j])}}
    \cup {Deref(PyItem(items[i], "entity")).s :
            i \in {j \in 1..Len(items) :
                     /\ IsDict(items[j])
                     /\ PyIn("entity", items[j])
                     /\ IsStr(PyItem(items[j], "entity"))}}
  ELSE IF IsDict(entity) /\ PyIn("entity", entity) /\ IsStr(PyItem(entity, "entity"))
    THEN {Deref(PyItem(entity, "entity")).s}
  ELSE {}

\* What one recognised key of a node contributes in __async_extract_common.
CommonOfValue(entity) ==
  IF ~Truthy(entity) THEN {}
  ELSE IF IsStr(entity) THEN {Deref(entity).s}
  ELSE IF IsList(entity) THEN
    LET items == Deref(entity).l IN
    {Deref(items[i]).s : i \in {j \in 1..Len(items) : IsStr(items[j])}}
    \cup {Deref(PyItem(items[i], "entity")).s :
            i \in {j \in 1..Len(items) :
                     /\ IsDict(items[j])
                     /\ PyIn("entity", items[j])
                     /\ IsStr(PyItem(items[j], "entity"))}}
  ELSE IF IsDict(entity) /\ PyIn("entity", entity) /\ IsStr(PyItem(entity, "entity"))
    THEN {Deref(PyItem(entity, "entity")).s}
  ELSE {}

CommonKeys == <<"camera_image", "entity", "entities", "entity_id">>

async_extract_common(config, d) ==
  IF d > RecursionLimit THEN Raise("RecursionError")
  ELSE IF IsStr(config) THEN Ok({})
  ELSE IF ~IsDict(config) THEN Raise("AttributeError")
  ELSE Ok(UNION {CommonOfValue(PyGet(config, CommonKeys[k], None)) :
                   k \in 1..Len(CommonKeys)})

\* A slip: `entities` is looked at before `entity`.
BadgeEntitiesFirst(config, d) ==
  IF d > RecursionLimit THEN Raise("RecursionError")
  ELSE IF IsStr(config) THEN Ok({Deref(config).s})
  ELSE IF PyIn("entities", config) THEN
    IF ~IsDict(config) THEN Raise("TypeError")
    ELSE SetOf(PyItem(config, "entities"))
  ELSE IF PyIn("entity", config) THEN
    IF ~IsDict(config) THEN Raise("TypeError")
    ELSE IF ~Hashable(PyItem(config, "entity")) THEN Raise("TypeError")
    ELSE Ok({Deref(PyItem(config, "entity")).s})
  ELSE Ok({})

async_extract_entities_from_badge(config, d) ==
  IF d > RecursionLimit THEN Raise("RecursionError")
  ELSE IF IsStr(config) THEN Ok({Deref(config).s})
  ELSE IF PyIn("entity", config) THEN
    IF ~IsDict(config) THEN Raise("TypeError")
    ELSE IF ~Hashable(PyItem(config, "entity")) THEN Raise("TypeError")
    ELSE Ok({Deref(PyItem(config, "entity")).s})
  ELSE IF PyIn("entities", config) THEN
    IF ~IsDict(config) THEN Raise("TypeError")
    ELSE SetOf(PyItem(config, "entities"))
  ELSE Ok({})

\* A slip: entities.update(entity_id) whatever entity_id is, so that a str
\* is added character by character.
ActionOfKeyUpdate(config, key) ==
  IF ~PyIn(key, config) THEN Ok({})
  ELSE IF ~IsDict(config) THEN Raise("TypeError")
  ELSE IF ~IsDict(PyItem(config, key)) THEN Raise("AttributeError")
  ELSE LET entity_id == PyGet(PyItem(config, key), "entity_id", None) IN
       IF ~Truthy(entity_id) THEN Ok({})
       ELSE SetOf(entity_id)

\* One pass of the loop over ("service_data", "target").
ActionOfKey(config, key) ==
  IF ~PyIn(key, config) THEN Ok({})
  ELSE IF ~IsDict(config) THEN Raise("TypeError")
  ELSE IF ~IsDict(PyItem(config, key)) THEN Raise("AttributeError")
  ELSE LET entity_id == PyGet(PyItem(config, key), "entity_id", None) IN
       IF ~Truthy(entity_id) THEN Ok({})
       ELSE IF IsStr(entity_id) THEN Ok({Deref(entity_id).s})
       ELSE SetOf(entity_id)

async_extract_entities_from_action(config, d) ==
  IF d > RecursionLimit THEN Raise("RecursionError")
  ELSE ThenAll(<<ActionOfKey(config, "service_data"), ActionOfKey(config, "target")>>)

ActionSlots == <<"tap_action", "hold_action", "double_tap_action", "subtitle_tap_action">>

async_extract_entities_from_actions(config, d) ==
  IF d > RecursionLimit THEN Raise("RecursionError")
  ELSE ThenAll([k \in 1..Len(ActionSlots) |->
         IF ~PyIn(ActionSlots[k], config) THEN Ok({})
         ELSE IF ~IsDict(config) THEN Raise("TypeError")
         ELSE async_extract_entities_from_action(PyItem(config, ActionSlots[k]), d + 1)])

async_extract_entities_from_condition(config, d) ==
  IF d > RecursionLimit THEN Raise("RecursionError")
  ELSE IF ~PyIn("entity", config) THEN Ok({})
  ELSE IF ~IsDict(config) THEN Raise("TypeError")
  ELSE IF IsStr(PyItem(config, "entity")) THEN Ok({Deref(PyItem(config, "entity")).s})
  ELSE Ok({})

\* "if key in config: for condition in config[key]: ..."
ConditionsOf(config, d) ==
  IF ~PyIn("conditions", config) THEN Ok({})
  ELSE IF ~IsDict(config) THEN Raise("TypeError")
  ELSE LET items == PyIter(PyItem(config, "conditions")) IN
       ThenAll([i \in 1..Len(items) |->
                  async_extract_entities_from_condition(items[i], d + 1)])

async_extract_entities_from_header_footer(config, d) ==
  IF d > RecursionLimit THEN Raise("RecursionError")
  ELSE ThenAll(<<async_extract_common(config, d + 1),
                 async_extract_entities_from_actions(config, d + 1)>>)

RECURSIVE async_extract_entities_from_mushroom_chip(_, _)
async_extract_entities_from_mushroom_chip(config, d) ==
  IF d > RecursionLimit THEN Raise("RecursionError")
  ELSE ThenAll(<<
    async_extract_common(config, d + 1),
    IF ~PyIn("chip", config) THEN Ok({})
    ELSE IF ~IsDict(config) THEN Raise("TypeError")
    ELSE async_extract_entities_from_mushroom_chip(PyItem(config, "chip"), d + 1),
    ConditionsOf(config, d) >>)

RECURSIVE async_extract_entities_from_element(_, _)

\* A slip: the entries of `elements` are read as leaves, not as elements.
ElementsOfLeaves(config, d) ==
  IF ~PyIn("elements", config) THEN Ok({})
  ELSE IF ~IsDict(config) THEN Raise("TypeError")
  ELSE LET items == PyIter(PyItem(config, "elements")) IN
       ThenAll([i \in 1..Len(items) |->
                  async_extract_entities_from_header_footer(items[i], d + 1)])

\* "if "elements" in config: for element in config["elements"]: ..."
ElementsOf(config, d) ==
  IF ~PyIn("elements", config) THEN Ok({})
  ELSE IF ~IsDict(config) THEN Raise("TypeError")
  ELSE LET items == PyIter(PyItem(config, "elements")) IN
       ThenAll([i \in 1..Len(items) |->
                  async_extract_entities_from_element(items[i], d + 1)])

async_extract_entities_from_element(config, d) ==
  IF d > RecursionLimit THEN Raise("RecursionError")
  ELSE ThenAll(<<
    async_extract_common(config, d + 1),
    async_extract_entities_from_actions(config, d + 1),
    async_extract_entities_from_action(config, d + 1),
    ConditionsOf(config, d),
    ElementsOf(config, d) >>)

RECURSIVE async_extract_entities_from_card(_, _)

\* A slip: the loop over `cards` returns after its first entry.
CardsOfFirst(config, d) ==
  IF ~IsDict(config) THEN Raise("AttributeError")
  ELSE LET items == PyIter(PyGet(config, "cards", List(<<>>))) IN
       ThenAll([i \in 1..(IF Len(items) > 0 THEN 1 ELSE 0) |->
                  async_extract_entities_from_card(items[i], d + 1)])

\* "for card in config.get("cards", []): ..."
CardsOf(config, d) ==
  IF ~IsDict(config) THEN Raise("AttributeError")
  ELSE LET items == PyIter(PyGet(config, "cards", List(<<>>))) IN
       ThenAll([i \in 1..Len(items) |->
                  async_extract_entities_from_card(items[i], d + 1)])

async_extract_entities_from_card(config, d) ==
  IF d > RecursionLimit THEN Raise("RecursionError")
  ELSE ThenAll(<<
    async_extract_common(config, d + 1),
    async_extract_entities_from_actions(config, d + 1),
    IF ~PyIn("condition", config) THEN Ok({})
    ELSE IF ~IsDict(config) THEN Raise("TypeError")
    ELSE async_extract_entities_from_condition(PyItem(config, "condition"), d + 1),
    IF ~PyIn("card", config) THEN Ok({})
    ELSE IF ~IsDict(config) THEN Raise("TypeError")
    ELSE async_extract_entities_from_card(PyItem(config, "card"), d + 1),
    CardsOf(config, d),
    \* from here on config is a dict: config.get("cards", []) has returned
    ThenAll([k \in 1..2 |->
      LET key == <<"header", "footer">>[k] IN
      IF ~IsDict(config) \/ ~PyIn(key, config) THEN Ok({})
      ELSE async_extract_entities_from_header_footer(PyItem(config, key), d + 1)]),
    IF ~IsDict(config) THEN Ok({})
    ELSE LET items == PyIter(PyGet(config, "elements", List(<<>>))) IN
         ThenAll([i \in 1..Len(items) |->
                    async_extract_entities_from_element(items[i], d + 1)]),
    IF ~IsDict(config) \/ ~PyIn("chips", config) THEN Ok({})
    ELSE LET items == PyIter(PyItem(config, "chips")) IN
         ThenAll([i \in 1..Len(items) |->
                    async_extract_entities_from_mushroom_chip(items[i], d + 1)]) >>)

\* One view of the outer loop of __async_extract_entities.
ViewOf(views, d) ==
  IF ~IsDict(views) THEN Raise("AttributeError")
  ELSE LET badges == PyIter(PyGet(views, "badges", List(<<>>)))
           cards == PyIter(PyGet(views, "cards", List(<<>>)))
       IN  ThenAll(<<
             ThenAll([i \in 1..Len(badges) |->
                        async_extract_entities_from_badge(badges[i], d + 1)]),
             ThenAll([i \in 1..Len(cards) |->
                        async_extract_entities_from_card(cards[i], d + 1)]) >>)

async_extract_entities(config, d) ==
  IF d > RecursionLimit THEN Raise("RecursionError")
  ELSE IF ~IsDict(config) THEN Raise("AttributeError")
  ELSE LET views == PyIter(PyGet(config, "views", List(<<>>))) IN
       ThenAll([i \in 1..Len(views) |-> ViewOf(views[i], d)])

\* ------------------------------------------------------------------------
\* Input documents
\* ------------------------------------------------------------------------
M1(k, v) == Map(<< <<k, v>> >>)
M2(k1, v1, k2, v2) == Map(<< <<k1, v1>>, <<k2, v2>> >>)
L1(a) == List(<<a>>)
L2(a, b) == List(<<a, b>>)

\* Lists of at most two members of a set of nodes.
ListsOf(S) == {List(<<>>)} \cup {L1(a) : a \in S} \cup {L2(a, b) : a \in S, b \in S}

\* Two different positions of a four-element tuple of keys.
TwoOfFour == {p \in (1..4) \X (1..4) : p[1] # p[2]}

Ids == {"", "a.x", "b.y"}
StrNodes == {Str(x) : x \in Ids}

\* Nodes met under one of the common keys.
ItemShapes ==
  StrNodes \cup
  { M1("entity", Str("")), M1("entity", Str("c.z")), M1("entity", L1(Str("c.z"))),
    M1("name", Str("c.z")), L1(Str("c.z")), Map(<<>>) }
CommonValues ==
  StrNodes \cup ListsOf(ItemShapes) \cup
  { M1("entity", Str("c.z")), M1("entity", Str("")), M1("entity", L1(Str("c.z"))),
    M1("name", Str("c.z")), Map(<<>>) }
SmallValues == {Str(""), Str("a.x"), L1(Str("b.y")), M1("entity", Str("c.z"))}
CommonNodes ==
  {M1(k, v) : k \in {"camera_image", "entity", "entities", "entity_id", "name"},
              v \in CommonValues}
  \cup {M2(CommonKeys[p[1]], v, CommonKeys[p[2]], w) :
          p \in TwoOfFour, v \in SmallValues, w \in SmallValues}
  \cup {Map(<<>>)} \cup StrNodes

\* Badges: the shorthand, the two keys in both orders, keys a badge ignores.
BadgeNodes ==
  StrNodes
  \cup {M1("entity", v) : v \in StrNodes}
  \cup {M1("entities", v) : v \in ListsOf(StrNodes)}
  \cup {M2("entity", Str("a.x"), k, v) :
          k \in {"entities", "camera_image", "entity_id"},
          v \in {Str("b.y"), L1(Str("b.y"))}}
  \cup {M2(k, v, "entity", Str("a.x")) :
          k \in {"entities", "camera_image", "entity_id"},
          v \in {Str("b.y"), L1(Str("b.y"))}}
  \cup {M2("entities", L1(Str("a.x")), k, Str("b.y")) : k \in {"camera_image", "entity_id"}}
  \cup {M1(k, Str("b.y")) : k \in {"camera_image", "entity_id", "name"}}
  \cup {Map(<<>>)}

\* Actions: what `entity_id` holds, under which key, in which slot.
EntityIdValues ==
  StrNodes \cup ListsOf({Str("a.x"), Str("b.y")}) \cup {M1("c.z", Str("on")), Map(<<>>)}
Targets ==
  {M1("entity_id", v) : v \in EntityIdValues}
  \cup {Map(<<>>), M1("device_id", Str("a.x"))}
SmallTargets ==
  {M1("entity_id", Str("a.x")), M1("entity_id", Str("")),
   M1("entity_id", L2(Str("b.y"), Str("c.z"))), Map(<<>>)}
ActionNodes ==
  {M1(k, t) : k \in {"service_data", "target", "data"}, t \in Targets}
  \cup {M2("service_data", t, "target", u) : t \in SmallTargets, u \in SmallTargets}
  \cup {Map(<<>>)}
SmallActions ==
  {M1("target", M1("entity_id", Str("a.x"))),
   M1("service_data", M1("entity_id", L2(Str("b.y"), Str("c.z")))),
   M1("target", M1("entity_id", Str(""))),
   M1("action", Str("toggle"))}
ActionHolders ==
  {M1(k, a) : k \in {"tap_action", "hold_action", "double_tap_action",
                     "subtitle_tap_action", "icon_tap_action"},
              a \in ActionNodes}
  \cup {M2(ActionSlots[p[1]], a, ActionSlots[p[2]], b) :
          p \in TwoOfFour, a \in SmallActions, b \in SmallActions}

\* Conditions, headers and footers.
Conditions ==
  {M1("entity", Str("d.w")), M1("entity", Str("")), M1("entity", L1(Str("d.w"))),
   M1("state", Str("on")), Map(<<>>)}
HeaderFooters ==
  {M1("entity", Str("e.v")), M1("tap_action", M1("target", M1("entity_id", Str("e.v")))),
   M1("card", M1("entity", Str("e.v"))), Map(<<>>)}

\* Elements, nested through `elements` up to three deep.  The keys `card`,
\* `cards` and `chips` mean nothing in an element.
Elements0 ==
  {Map(<<>>),
   M1("entity", Str("a.x")),
   M1("target", M1("entity_id", Str("b.y"))),
   M1("service_data", M1("entity_id", L2(Str("b.y"), Str("c.z")))),
   M1("tap_action", M1("target", M1("entity_id", Str("c.z")))),
   M1("conditions", L2(M1("entity", Str("d.w")), M1("state", Str("on")))),
   M1("card", M1("entity", Str("e.v"))),
   M1("cards", L1(M1("entity", Str("e.v")))),
   M1("chips", L1(M1("entity", Str("e.v"))))}
Elements1 ==
  {M1("elements", v) : v \in ListsOf(Elements0)}
  \cup {M2("entity", Str("f.u"), "elements", L1(e)) : e \in Elements0}
Elements2 ==
  {M1("elements", L1(e)) : e \in Elements1}
  \cup {M2("elements", L2(e, M1("entity", Str("a.x"))), "entity_id", Str("g.t")) :
          e \in Elements1}
Elements == Elements0 \cup Elements1 \cup Elements2

\* Mushroom chips, nested through `chip`.
Chips0 ==
  {Map(<<>>), M1("entity", Str("a.x")),
   M1("conditions", L1(M1("entity", Str("d.w")))),
   M1("tap_action", M1("target", M1("entity_id", Str("c.z"))))}
Chips1 == {M1("chip", c) : c \in Chips0} \cup {M2("entity", Str("b.y"), "chip", c) : c \in Chips0}
Chips == Chips0 \cup Chips1 \cup {M1("chip", c) : c \in Chips1}

\* Cards, nested through `card` and `cards` up to three deep.
Cards0 ==
  {Map(<<>>), M1("type", Str("markdown")),
   M1("entity", Str("a.x")),
   M1("entities", L2(Str("a.x"), M1("entity", Str("b.y")))),
   M1("hold_action", M1("service_data", M1("entity_id", Str("c.z"))))}
  \cup {M1("condition", c) : c \in Conditions}
  \cup {M1(k, h) : k \in {"header", "footer"}, h \in HeaderFooters}
  \cup {M1("elements", L1(e)) : e \in Elements0 \cup Elements1}
  \cup {M1("chips", L1(c)) : c \in Chips}
SmallCards ==
  {Map(<<>>), M1("entity", Str("a.x")),
   M1("hold_action", M1("service_data", M1("entity_id", Str("c.z")))),
   M1("elements", L1(M1("target", M1("entity_id", Str("b.y"))))),
   M1("chips", L1(M1("chip", M1("entity", Str("d.w"))))),
   M1("footer", M1("entity", Str("e.v")))}
Cards1 ==
  {M1("card", c) : c \in Cards0}
  \cup {M1("cards", v) : v \in ListsOf(SmallCards)}
  \cup {M2("entity", Str("f.u"), k, c) : k \in {"card", "view", "conditions", "chip"},
                                         c \in SmallCards}
Cards2 ==
  {M1("card", c) : c \in Cards1}
  \cup {M2("camera_image", Str("g.t"), "cards", L2(c, M1("entity", Str("b.y")))) :
          c \in Cards1}
CardNodes == Cards0 \cup Cards1 \cup Cards2

\* Whole documents.
Views ==
  {Map(<<>>), M1("title", Str("Home"))}
  \cup {M1("badges", L1(b)) : b \in BadgeNodes}
  \cup {M1("cards", L1(c)) : c \in SmallCards \cup Cards1}
  \cup {M2("badges", L1(Str("a.x")), "cards", L1(c)) : c \in SmallCards}
Documents ==
  {Map(<<>>), M1("title", Str("Home"))}
  \cup {M1("views", L1(v)) : v \in Views}
  \cup {M1("views", L2(M1("badges", L1(Str("b.y"))), v)) : v \in Views}

\* The document with one view that holds one card / one badge.
DocOfCard(c) == M1("views", L1(M1("cards", L1(c))))
DocOfBadge(b) == M1("views", L1(M1("badges", L1(b))))

\* Documents of str, list and dict whose shape is not the expected one.
Malformed ==
  {Str("a.x"), L1(Str("a.x")),
   M1("views", Str("a.x")), M1("views", M1("path", Str("a.x"))),
   M1("views", L1(Str("a.x"))), M1("views", L1(L1(Str("a.x")))),
   M1("views", L1(M1("cards", Str("a.x")))),
   M1("views", L1(M1("cards", M1("entity", Str("a.x"))))),
   M1("views", L1(M1("badges", Str("a.x")))),
   M1("views", L1(M1("badges", M1("entity", Str("a.x"))))),
   DocOfCard(Str("a.x")), DocOfCard(Str("cards")), DocOfCard(L1(Str("a.x"))),
   DocOfBadge(L1(Str("entity"))),
   DocOfBadge(M1("entity", L1(Str("a.x")))),
   DocOfBadge(M1("entities", Str("a.x"))),
   DocOfBadge(M1("entities", L1(M1("entity", Str("a.x"))))),
   DocOfCard(M1("cards", Str("a.x"))),
   DocOfCard(M1("card", Str("a.x"))),
   DocOfCard(M1("elements", Str("a.x"))),
   DocOfCard(M1("elements", L1(L1(Str("target"))))),
   DocOfCard(M1("chips", Str("a.x"))),
   DocOfCard(M1("chips", L1(Str("chip")))),
   DocOfCard(M1("condition", Str("entity"))),
   DocOfCard(M1("header", L1(Str("a.x")))),
   DocOfCard(M1("tap_action", Str("a.x"))),
   DocOfCard(M1("tap_action", Str("target"))),
   DocOfCard(M1("tap_action", M1("target", Str("a.x")))),
   DocOfCard(M1("tap_action", M1("service_data", Str("a.x")))),
   DocOfCard(M1("tap_action", M1("target", M1("entity_id", L1(L1(Str("a.x")))))))}

\* Documents and nodes that reach themselves through `card`, `cards`,
\* `elements` or `chip`.
Cyclic ==
  {Ref("selfcard"), Ref("selfcards"), Ref("selfelem"), Ref("selfchip"),
   M1("elements", L1(Ref("selfelem"))), M1("chips", L1(Ref("selfchip")))}
  \cup {DocOfCard(c) :
          c \in {Ref("selfcard"), Ref("selfcards"),
                 M1("elements", L1(Ref("selfelem"))), M1("chips", L1(Ref("selfchip")))}}

Inputs ==
  CommonNodes \cup BadgeNodes \cup ActionNodes \cup ActionHolders \cup Conditions
  \cup HeaderFooters \cup Elements \cup Chips \cup CardNodes \cup Documents
  \cup Malformed \cup Cyclic

\* ------------------------------------------------------------------------
\* State
\* ------------------------------------------------------------------------
VARIABLES
  node,        \* the argument of a direct call of one extractor function
  fn,          \* which function was called on it ("none" before the call)
  result,      \* what the call returned or raised
  registry,    \* entity ids of the entity registry
  states,      \* entity ids that have a state in the state machine
  configs,     \* configs[i]: the document dashboard i loads
  issues,      \* the repair issues, by issue id
  pc,          \* where async_inspect is: "idle", "loop", "done", "raised"
  idx,         \* the dashboard the loop is at
  entity_ids,  \* the local `entity_ids` of the running async_inspect
  log,         \* history: what the current run did for each dashboard
  run0         \* history: registry, states and issues when the run began

vars == <<node, fn, result, registry, states, configs, issues, pc, idx,
          entity_ids, log, run0>>
inspectVars == <<registry, states, configs, issues, pc, idx, entity_ids, log, run0>>
callVars == <<node, fn, result>>

\* ------------------------------------------------------------------------
\* Direct calls of the extractor functions
\* ------------------------------------------------------------------------
Call(name, r) ==
  /\ fn = "none"
  /\ fn' = name
  /\ result' = r
  /\ UNCHANGED <<node, inspectVars>>

CallEntities == Call("entities", async_extract_entities(node, 1))
CallCommon == Call("common", async_extract_common(node, 1))
CallBadge == Call("badge", async_extract_entities_from_badge(node, 1))
CallCard == Call("card", async_extract_entities_from_card(node, 1))
CallActions == Call("actions", async_extract_entities_from_actions(node, 1))
CallAction == Call("action", async_extract_entities_from_action(node, 1))
CallCondition == Call("condition", async_extract_entities_from_condition(node, 1))
CallElement == Call("element", async_extract_entities_from_element(node, 1))
CallHeaderFooter == Call("header_footer", async_extract_entities_from_header_footer(node, 1))
CallChip == Call("chip", async_extract_entities_from_mushroom_chip(node, 1))

InitExtract ==
  /\ node \in Inputs
  /\ fn = "none"
  /\ result = Ok({})
  /\ registry = {}
  /\ states = {}
  /\ configs = <<>>
  /\ issues = <<>>
  /\ pc = "idle"
  /\ idx = 0
  /\ entity_ids = {}
  /\ log = <<>>
  /\ run0 = [registry |-> {}, states |-> {}, issues |-> <<>>]

NextExtract ==
  \/ CallEntities
  \/ CallCommon
  \/ CallBadge
  \/ CallCard
  \/ CallActions
  \/ CallAction
  \/ CallCondition
  \/ CallElement
  \/ CallHeaderFooter
  \/ CallChip

SpecExtract == InitExtract /\ [][NextExtract]_vars

\* ------------------------------------------------------------------------
\* The inspection (async_inspect)
\* ------------------------------------------------------------------------
\* self._dashboards.values(): the default dashboard has no url path (None,
\* here the falsy "") and no config; the others have distinct url paths.
Dashboards ==
  << [url_path |-> "", config |-> None],
     [url_path |-> "dash-a", config |-> M1("title", Str("Energy"))],
     [url_path |-> "dash-b", config |-> M1("icon", Str("mdi:flash"))] >>

RegistryIds == {"light.a"}
StateIds == {"sensor.b"}
ENTITY_MATCH_ALL == "all"
ENTITY_MATCH_NONE == "none"

\* The documents a dashboard may hold.
InspectDocs ==
  { Map(<<>>),
    DocOfCard(M1("entity", Str("light.a"))),
    M1("views", L1(M2("badges", L2(Str("sensor.b"), Str("scene.x")),
                      "cards", L1(M1("entities", L2(Str("all"), Str("group.g"))))))),
    M1("views", L1(M2("badges", L2(Str("device_tracker.p"), Str("none")),
                      "cards", L1(M2("entity", Str("persistent_notification.n"),
                                     "card", M1("entity", Str("scenes.k"))))))),
    DocOfCard(Str("light.a")) }

\* url_path = dashboard.url_path or "lovelace"
UrlPath(dashboard) == IF dashboard.url_path = "" THEN "lovelace" ELSE dashboard.url_path

IssueIds == {UrlPath(Dashboards[i]) : i \in 1..Len(Dashboards)}
NoIssue == [present |-> FALSE, entities |-> {}, dashboard |-> "", edit |-> ""]

\* A slip: one of the prefixes is left out.
ThreePrefixes == {"device_tracker.", "group.", "persistent_notification."}

ExemptPrefixes == {"device_tracker.", "group.", "persistent_notification.", "scene."}

\* The identifiers the comprehension of async_inspect keeps.
UnknownEntities(extracted, known) ==
  {entity_id \in extracted :
     /\ ~(\E prefix \in ExemptPrefixes : StartsWith(entity_id, prefix))
     /\ entity_id \notin known}

\* entity_ids, as async_inspect computes it before the loop
KnownEntities(reg, sts) == reg \cup sts \cup {ENTITY_MATCH_ALL, ENTITY_MATCH_NONE}

\* title = "Overview"; if dashboard.config: title = dashboard.config.get("title", url_path)
Title(dashboard) ==
  IF ~Truthy(dashboard.config) THEN "Overview"
  ELSE PyGet(dashboard.config, "title", Str(UrlPath(dashboard))).s

Init ==
  /\ node = None
  /\ fn = "none"
  /\ result = Ok({})
  /\ registry \in SUBSET RegistryIds
  /\ states \in SUBSET StateIds
  /\ configs \in [1..Len(Dashboards) -> InspectDocs]
  /\ issues = [i \in IssueIds |-> NoIssue]
  /\ pc = "idle"
  /\ idx = 0
  /\ entity_ids = {}
  /\ log = <<>>
  /\ run0 = [registry |-> {}, states |-> {}, issues |-> [i \in IssueIds |-> NoIssue]]

\* The entity registry gains or loses an entity.
EntityRegistryUpdated ==
  /\ \E e \in RegistryIds :
       registry' = IF e \in registry THEN registry \ {e} ELSE registry \cup {e}
  /\ UNCHANGED <<callVars, states, configs, issues, pc, idx, entity_ids, log, run0>>

\* An entity gets or loses its state in the state machine.
StateChanged ==
  /\ \E e \in StateIds :
       states' = IF e \in states THEN states \ {e} ELSE states \cup {e}
  /\ UNCHANGED <<callVars, registry, configs, issues, pc, idx, entity_ids, log, run0>>

\* async_inspect up to its first await: entity_ids is computed.
InspectStart ==
  /\ pc \in {"idle", "done", "raised"}
  /\ entity_ids' = KnownEntities(registry, states)
  /\ idx' = 1
  /\ pc' = "loop"
  /\ log' = <<>>
  /\ run0' = [registry |-> registry, states |-> states, issues |-> issues]
  /\ UNCHANGED <<callVars, registry, states, configs, issues>>

\* The loop goes to the next dashboard, or async_inspect returns.
Advance ==
  /\ idx' = idx + 1
  /\ pc' = IF idx = Len(Dashboards) THEN "done" ELSE "loop"

\* One iteration whose dashboard.async_load raises ConfigNotFound.
InspectSkip ==
  /\ pc = "loop"
  /\ log' = Append(log, [d |-> idx, op |-> "skip", key |-> UrlPath(Dashboards[idx])])
  /\ Advance
  /\ UNCHANGED <<callVars, registry, states, configs, issues, entity_ids, run0>>

\* One iteration whose dashboard.async_load returns the document: from the
\* await to the next one (or to the end of async_inspect).  An exception of
\* the extractor is not caught and ends async_inspect.  The `entities`
\* placeholder, a "- `id`" line per identifier in the set's iteration order,
\* is kept as the set it lists.
InspectDashboard ==
  /\ pc = "loop"
  /\ LET dashboard == Dashboards[idx]
         url_path == UrlPath(dashboard)
         extracted == async_extract_entities(configs[idx], 1)
         unknown_entities == UnknownEntities(extracted.ids, entity_ids)
     IN  IF Raised(extracted)
         THEN /\ pc' = "raised"
              /\ log' = Append(log, [d |-> idx, op |-> "raise", key |-> url_path])
              /\ UNCHANGED <<issues, idx>>
         ELSE IF unknown_entities # {}
         THEN /\ issues' = [issues EXCEPT ![url_path] =
                              [present |-> TRUE,
                               entities |-> unknown_entities,
                               dashboard |-> Title(dashboard),
                               edit |-> "/" \o url_path \o "/0?edit=1"]]
              /\ log' = Append(log, [d |-> idx, op |-> "create", key |-> url_path])
              /\ Advance
         ELSE /\ issues' = [issues EXCEPT ![url_path] = NoIssue]
              /\ log' = Append(log, [d |-> idx, op |-> "delete", key |-> url_path])
              /\ Advance
  /\ UNCHANGED <<callVars, registry, states, configs, entity_ids, run0>>

Next ==
  \/ EntityRegistryUpdated
  \/ StateChanged
  \/ InspectStart
  \/ InspectSkip
  \/ InspectDashboard

Spec == Init /\ [][Next]_vars

\* ------------------------------------------------------------------------
\* Properties of the extractor functions (specification SpecExtract)
\* ------------------------------------------------------------------------
\* The str members of a list, and the `entity` of its dict members when
\* that is a str.
StatedOfItems(items) ==
  {Deref(items[i]).s : i \in {j \in 1..Len(items) : IsStr(items[j])}}
  \cup {Deref(PyItem(items[i], "entity")).s :
          i \in {j \in 1..Len(items) : /\ IsDict(items[j])
                                       /\ PyIn("entity", items[j])
                                       /\ IsStr(PyItem(items[j], "entity"))}}

\* What the value v of one common key is said to contribute; `whole` tells
\* which str values count as an identifier of their own.
StatedOfValue(v, whole) ==
  (IF IsStr(v) /\ Deref(v).s \in whole THEN {Deref(v).s} ELSE {})
  \cup (IF IsList(v) THEN StatedOfItems(Deref(v).l) ELSE {})
  \cup (IF IsDict(v) /\ PyIn("entity", v) /\ IsStr(PyItem(v, "entity"))
        THEN {Deref(PyItem(v, "entity")).s} ELSE {})

StatedCommon(n, whole) ==
  UNION {StatedOfValue(PyItem(n, k), whole) :
           k \in {c \in {"camera_image", "entity", "entities", "entity_id"} : PyIn(c, n)}}

AnyStr == Ids \cup {"c.z", "d.w", "e.v", "f.u", "g.t"}
NonEmptyStr == AnyStr \ {""}

\* C4 as stated: extract_common of a bare string is the empty set, and of a
\* mapping it is exactly the union over the four keys of the value itself
\* when it is a string, the string items and the `entity` strings of the
\* mapping items of a list value, and the `entity` string of a mapping value.
C4_CommonAsStated ==
  fn = "common" =>
    /\ IsStr(node) => result = Ok({})
    /\ IsDict(node) => result = Ok(StatedCommon(node, AnyStr))

\* C4 amended: as C4, but a string value counts only when it is not empty.
C4_CommonNonEmpty ==
  fn = "common" =>
    /\ IsStr(node) => result = Ok({})
    /\ IsDict(node) => result = Ok(StatedCommon(node, NonEmptyStr))

\* extract_common was applied to a node with an empty `entity` and a list.
C4_Witness ==
  /\ fn = "common"
  /\ node = M2("entity", Str(""), "entities", L1(Str("b.y")))
  /\ result = Ok({"b.y"})

WellTypedTarget(t) ==
  /\ IsDict(t)
  /\ PyIn("entity_id", t) =>
       LET v == PyItem(t, "entity_id") IN
       \/ IsStr(v)
       \/ IsDict(v)
       \/ IsList(v) /\ \A i \in 1..Len(Deref(v).l) : IsStr(Deref(v).l[i])
WellTypedAction(a) ==
  /\ IsDict(a)
  /\ \A k \in {"service_data", "target"} : PyIn(k, a) => WellTypedTarget(PyItem(a, k))

\* What an action is said to contribute.
StatedAction(a, whole) ==
  UNION {LET t == PyItem(a, k) IN
         IF ~PyIn("entity_id", t) THEN {}
         ELSE LET v == PyItem(t, "entity_id") IN
              IF IsStr(v) THEN (IF Deref(v).s \in whole THEN {Deref(v).s} ELSE {})
              ELSE {PyIter(v)[i].s : i \in 1..Len(PyIter(v))} :
         k \in {c \in {"service_data", "target"} : PyIn(c, a)}}
StatedActions(n, whole) ==
  UNION {StatedAction(PyItem(n, k), whole) :
           k \in {c \in {"tap_action", "hold_action", "double_tap_action",
                         "subtitle_tap_action"} : PyIn(c, n)}}
WellTypedHolder(n) ==
  /\ IsDict(n)
  /\ \A k \in {"tap_action", "hold_action", "double_tap_action", "subtitle_tap_action"} :
       PyIn(k, n) => WellTypedAction(PyItem(n, k))

MembersAt(n, key) ==
  IF IsDict(n) /\ PyIn(key, n) /\ IsList(PyItem(n, key))
  THEN {Deref(PyItem(n, key)).l[i] : i \in 1..Len(Deref(PyItem(n, key)).l)}
  ELSE {}

\* The cards directly inside a card, and the cards inside it at any depth
\* (the inputs nest at most three deep).
CardsIn(c) ==
  (IF IsDict(c) /\ PyIn("card", c) THEN {PyItem(c, "card")} ELSE {})
  \cup MembersAt(c, "cards")
CardsBelow(S) == UNION {CardsIn(c) : c \in S}
NestedCards(c) ==
  {c} \cup CardsBelow({c}) \cup CardsBelow(CardsBelow({c}))
      \cup CardsBelow(CardsBelow(CardsBelow({c})))

\* What a card contributes by itself, its nested cards set aside.
OwnOfCard(c) ==
  async_extract_common(c, 1).ids
  \cup async_extract_entities_from_actions(c, 1).ids
  \cup (IF PyIn("condition", c)
        THEN async_extract_entities_from_condition(PyItem(c, "condition"), 1).ids
        ELSE {})
  \cup UNION {async_extract_entities_from_header_footer(PyItem(c, k), 1).ids :
               k \in {h \in {"header", "footer"} : PyIn(h, c)}}
  \cup UNION {async_extract_entities_from_element(e, 1).ids : e \in MembersAt(c, "elements")}
  \cup UNION {async_extract_entities_from_mushroom_chip(e, 1).ids : e \in MembersAt(c, "chips")}

CardKeys ==
  {"camera_image", "entity", "entities", "entity_id", "tap_action", "hold_action",
   "double_tap_action", "subtitle_tap_action", "condition", "card", "cards",
   "header", "footer", "elements", "chips"}

\* C6: the result of extract_card on a well-formed card is exactly what the
\* card and every card nested in it under `card`/`cards`, at any depth,
\* contribute by themselves; all of it is in the result of extract_document
\* for a document that shows the card; a card with no recognised key yields
\* the empty set.
C6_CardUnion ==
  /\ (fn = "card" /\ node \in CardNodes) =>
       /\ result = Ok(UNION {OwnOfCard(c) : c \in NestedCards(node)})
       /\ (\A k \in CardKeys : ~PyIn(k, node)) => result = Ok({})
  /\ (fn = "entities" /\ node \in Documents) =>
       /\ ~Raised(result)
       /\ \A v \in MembersAt(node, "views") : \A top \in MembersAt(v, "cards") :
            \A c \in NestedCards(top) : OwnOfCard(c) \subseteq result.ids

\* extract_card was applied to a card whose identifiers sit three cards deep.
C6_Witness ==
  /\ fn = "card"
  /\ node = M1("card", M1("cards", L2(M1("entity", Str("a.x")),
                                      M1("footer", M1("entity", Str("e.v"))))))
  /\ result = Ok({"a.x", "e.v"})

\* The elements inside an element at any depth.
ElementsBelow(S) == UNION {MembersAt(e, "elements") : e \in S}
NestedElements(e) ==
  {e} \cup ElementsBelow({e}) \cup ElementsBelow(ElementsBelow({e}))
      \cup ElementsBelow(ElementsBelow(ElementsBelow({e})))

\* What an element contributes by itself.
OwnOfElement(e) ==
  async_extract_common(e, 1).ids
  \cup async_extract_entities_from_actions(e, 1).ids
  \cup async_extract_entities_from_action(e, 1).ids
  \cup UNION {async_extract_entities_from_condition(c, 1).ids : c \in MembersAt(e, "conditions")}

\* C8: the result of extract_element on a well-formed element is exactly
\* what the element and every element nested in it under `elements`, at any
\* depth, contribute by themselves (common fields, action slots, the
\* element's own service_data/target, conditions); `card`, `cards` and
\* `chips` inside an element contribute nothing.
C8_ElementUnion ==
  (fn = "element" /\ node \in Elements) =>
     result = Ok(UNION {OwnOfElement(e) : e \in NestedElements(node)})

\* extract_element was applied to an element group that holds an element
\* with its own target and an element with a `card` key.
C8_Witness ==
  /\ fn = "element"
  /\ node = M1("elements", L2(M1("target", M1("entity_id", Str("b.y"))),
                              M1("card", M1("entity", Str("e.v")))))
  /\ result = Ok({"b.y"})

\* C1: extract_document of a document of strings, lists and mappings never
\* ends in an error, and a document whose only content is a shape mismatch
\* yields the empty set.
C1_NeverRaises ==
  (fn = "entities" /\ IsDict(node) /\ node \notin Cyclic) =>
     /\ ~Raised(result)
     /\ node \in Malformed => result.ids = {}

\* C9: a descent that reaches the depth cap is cut off there: the call on a
\* node that contains itself still returns a set.
C9_CycleIsCut ==
  (fn \in {"entities", "card", "element", "chip"} /\ node \in Cyclic) => ~Raised(result)

\* ------------------------------------------------------------------------
\* Properties of the inspection (specification Spec)
\* ------------------------------------------------------------------------
\* What the run has recorded for dashboard i.
Entries(i, ops) == {k \in 1..Len(log) : log[k].d = i /\ log[k].op \in ops}

\* text begins with prefix, letter by letter
BeginsWith(text, prefix) ==
  /\ Len(prefix) <= Len(text)
  /\ \A k \in 1..Len(prefix) : SubSeq(text, k, k) = SubSeq(prefix, k, k)

\* The known-entity set as it was when the run began.
KnownAtStart == run0.registry \cup run0.states \cup {"all", "none"}

\* The identifiers of dashboard i's document that count as unknown.
UnknownOf(i) ==
  {e \in async_extract_entities(configs[i], 1).ids :
     /\ ~BeginsWith(e, "device_tracker.")
     /\ ~BeginsWith(e, "group.")
     /\ ~BeginsWith(e, "persistent_notification.")
     /\ ~BeginsWith(e, "scene.")
     /\ e \notin KnownAtStart}

\* C2: when a run is over, every dashboard whose document loaded has had
\* exactly one of create/delete, on its own issue id: create if and only if
\* its document holds an unknown identifier; and no other issue was touched.
C2_OneIssueOpPerLoaded ==
  pc \in {"done", "raised"} =>
    /\ \A i \in 1..Len(Dashboards) :
         Entries(i, {"create", "delete", "raise"}) # {} =>
           /\ Cardinality(Entries(i, {"create", "delete"})) = 1
           /\ \A k \in Entries(i, {"create", "delete"}) :
                /\ log[k].key = UrlPath(Dashboards[i])
                /\ log[k].op = "create" <=> UnknownOf(i) # {}
                /\ issues[log[k].key].present <=> UnknownOf(i) # {}
    /\ \A id \in IssueIds :
         (\A k \in 1..Len(log) : log[k].op \in {"create", "delete"} => log[k].key # id)
           => issues[id] = run0.issues[id]

\* C3: the identifiers listed in an issue this run created are exactly the
\* extracted ones that neither start with an exempt prefix nor were in the
\* known-entity set when the run began.
C3_ListedAreUnknown ==
  \A k \in 1..Len(log) :
    log[k].op = "create" =>
      LET listed == issues[log[k].key].entities
          extracted == async_extract_entities(configs[log[k].d], 1).ids
      IN  /\ issues[log[k].key].present
          /\ \A e \in listed :
               /\ ~BeginsWith(e, "device_tracker.")
               /\ ~BeginsWith(e, "group.")
               /\ ~BeginsWith(e, "persistent_notification.")
               /\ ~BeginsWith(e, "scene.")
               /\ e \notin KnownAtStart
               /\ e \in extracted
          /\ \A e \in extracted :
               ( /\ ~BeginsWith(e, "device_tracker.")
                 /\ ~BeginsWith(e, "group.")
                 /\ ~BeginsWith(e, "persistent_notification.")
                 /\ ~BeginsWith(e, "scene.")
                 /\ e \notin KnownAtStart ) => e \in listed

\* An issue was created for a document that also names an exempt and a
\* known entity, and the entity it lists got a state after the run began.
C3_Witness ==
  \E k \in 1..Len(log) :
    /\ log[k].op = "create"
    /\ async_extract_entities(configs[log[k].d], 1).ids = {"sensor.b", "scene.x", "all", "group.g"}
    /\ issues[log[k].key].entities = {"sensor.b"}
    /\ "sensor.b" \in states

\* C10: when a run is over, a dashboard that was skipped for config-not-found
\* has the issue it had when the run began, and every dashboard after it
\* was gone through: skipped in turn, or its issue created or deleted.
C10_SkipAndGoOn ==
  pc \in {"done", "raised"} =>
    \A i \in 1..Len(Dashboards) :
      Entries(i, {"skip"}) # {} =>
        /\ Entries(i, {"create", "delete"}) = {}
        /\ issues[UrlPath(Dashboards[i])] = run0.issues[UrlPath(Dashboards[i])]
        /\ \A j \in (i + 1)..Len(Dashboards) : Entries(j, {"skip", "create", "delete"}) # {}

====
